---- MODULE Spec2Model ----
(***************************************************************************)
(* Model of the two numeric contracts of the repository:                   *)
(*   src/src/VolatilityCalculator.rs  (volatility score, recommended fee)  *)
(*   src/src/PositionOptimizer.rs     (optimal bounds, rebalance,          *)
(*                                     position efficiency)                *)
(* Both contracts are stateless apart from scaling_factor, which the       *)
(* constructor sets and nothing reads.  Every external entry point and the *)
(* helpers sqrt and compute_mean are actions that draw their arguments     *)
(* from finite sets and record the returned value in `result`.             *)
(*                                                                         *)
(* Machine integers are carried at reduced widths, because the model       *)
(* checker's integers are 32 bits wide.  The widths keep the order of the  *)
(* real ones: u128 < U256, 8000 * u32 < U256, every tick of a u128 price   *)
(* plus the widest tick range fits an i32 with room to spare.              *)
(***************************************************************************)
EXTENDS Integers, Sequences, FiniteSets, TLC

\* ---------------------------------------------------------------- widths
\* Bits carried for alloy_primitives::U256.
U256Bits == 30
\* Bits carried for the u128 that price_to_tick converts through.
U128Bits == 8
\* Bits carried for i32 ticks and for the u32 efficiency (PositionOptimizer).
I32Bits == 24
\* Bits carried for the u32 fees (VolatilityCalculator).
FeeBits == 16

U256Mod == 2 ^ U256Bits
U256Max == U256Mod - 1
U128Max == 2 ^ U128Bits - 1
I32Mod == 2 ^ I32Bits
I32Max == 2 ^ (I32Bits - 1) - 1
I32Min == -(2 ^ (I32Bits - 1))
U32Max == I32Mod - 1
FeeMax == 2 ^ FeeBits - 1

\* ---------------------------------------------------------------- bounds
\* Longest price series drawn.
MaxLen == 3
\* sqrt is applied to every n in 0..MaxSmallN and to values near the top.
MaxSmallN == 200

\* ------------------------------------------------------- returned values
Ok(v) == [kind |-> "Ok", error |-> "", value |-> v]
Err(e) == [kind |-> "Err", error |-> e, value |-> 0]
\* A Rust panic (arithmetic overflow in a checked build, division by zero,
\* a failed narrowing conversion): the call reverts without a typed error.
Panic == [kind |-> "Panic", error |-> "", value |-> 0]

\* ------------------------------------------------------ U256 arithmetic
\* The operators + and * of U256 wrap modulo 2^bits.
wrapping_add(a, b) == (a + b) % U256Mod

RECURSIVE wrapping_mul(_, _)
wrapping_mul(a, b) ==
    IF b = 0 THEN 0
    ELSE LET h == wrapping_mul(a, b \div 2)
             d == (h + h) % U256Mod
         IN IF b % 2 = 1 THEN (d + a) % U256Mod ELSE d

saturating_add(a, b) == IF a > U256Max - b THEN U256Max ELSE a + b

saturating_mul(a, b) ==
    IF a = 0 \/ b = 0 THEN 0
    ELSE IF a > U256Max \div b THEN U256Max ELSE a * b

saturating_sub(a, b) == IF a >= b THEN a - b ELSE 0

\* ------------------------------------------------- VolatilityCalculator
abs_diff(a, b) == IF a >= b THEN a - b ELSE b - a

RECURSIVE variance_loop(_, _, _, _)
variance_loop(prices, mean, i, sum_squared_diff) ==
    IF i > Len(prices) THEN sum_squared_diff
    ELSE LET price == prices[i]
             diff == IF price >= mean THEN price - mean ELSE mean - price
             squared == saturating_mul(diff, diff)
         IN variance_loop(prices, mean, i + 1,
                          saturating_add(sum_squared_diff, squared))

compute_variance(prices, mean) ==
    IF Len(prices) = 0 THEN 0
    ELSE variance_loop(prices, mean, 1, 0) \div Len(prices)

RECURSIVE mean_loop(_, _, _)
mean_loop(prices, i, sum) ==
    IF i > Len(prices) THEN sum
    ELSE mean_loop(prices, i + 1, saturating_add(sum, prices[i]))

compute_mean(prices) ==
    IF Len(prices) = 0 THEN 0
    ELSE mean_loop(prices, 1, 0) \div Len(prices)

RECURSIVE movement_loop(_, _, _)
movement_loop(prices, i, total_movement) ==
    IF i > Len(prices) THEN total_movement
    ELSE movement_loop(prices, i + 1,
             saturating_add(total_movement, abs_diff(prices[i], prices[i - 1])))

calculate_price_movement_intensity(prices) ==
    IF Len(prices) <= 1 THEN 0
    ELSE movement_loop(prices, 2, 0) \div (Len(prices) - 1)

RECURSIVE min_price_loop(_, _, _)
min_price_loop(prices, i, min_price) ==
    IF i > Len(prices) THEN min_price
    ELSE min_price_loop(prices, i + 1,
             IF prices[i] < min_price THEN prices[i] ELSE min_price)

RECURSIVE max_price_loop(_, _, _)
max_price_loop(prices, i, max_price) ==
    IF i > Len(prices) THEN max_price
    ELSE max_price_loop(prices, i + 1,
             IF prices[i] > max_price THEN prices[i] ELSE max_price)

price_range_of(prices) ==
    LET min_price == min_price_loop(prices, 1, U256Max)
        max_price == max_price_loop(prices, 1, 0)
    IN IF max_price > min_price THEN max_price - min_price ELSE 0

\* The weighted sum before the cap.
volatility_sum(prices, base_price) ==
    LET mean == compute_mean(prices)
        variance == compute_variance(prices, mean)
        movement_intensity == calculate_price_movement_intensity(prices)
        variation_coefficient ==
            IF mean > 0 THEN wrapping_mul(variance, 10000) \div mean ELSE 0
        price_range == price_range_of(prices)
        price_range_percent ==
            IF base_price > 0
            THEN wrapping_mul(price_range, 10000) \div base_price ELSE 0
    IN wrapping_add(
           wrapping_add(saturating_mul(variation_coefficient, 6),
                        saturating_mul(price_range_percent, 3)),
           saturating_mul(movement_intensity, 1)) \div 10

\* calculate_relative_volatility without the cap of lines 131-136.
calculate_relative_volatility_uncapped(prices, base_price) ==
    volatility_sum(prices, base_price)

calculate_relative_volatility(prices, base_price) ==
    LET volatility_score == volatility_sum(prices, base_price)
    IN IF volatility_score > 10000 THEN 10000 ELSE volatility_score

\* calculate_volatility_score with its two input checks in the other order.
calculate_volatility_score_window_first(recent_prices, time_window) ==
    IF time_window = 0 THEN Err("InvalidTimeWindow")
    ELSE IF Len(recent_prices) = 0 THEN Err("InvalidPriceArray")
    ELSE LET base_price == compute_mean(recent_prices)
         IN Ok(calculate_relative_volatility(recent_prices, base_price))

calculate_volatility_score(recent_prices, time_window) ==
    IF Len(recent_prices) = 0 THEN Err("InvalidPriceArray")
    ELSE IF time_window = 0 THEN Err("InvalidTimeWindow")
    ELSE LET base_price == compute_mean(recent_prices)
         IN Ok(calculate_relative_volatility(recent_prices, base_price))

\* U256 -> u32, which fails on a value that does not fit.
as_u32(v) == IF v > FeeMax THEN Panic ELSE Ok(v)

\* get_recommended_fee scaling over 7000 instead of 8000.
get_recommended_fee_short_scale(volatility_score, base_fee, max_fee) ==
    IF volatility_score <= 1000 THEN Ok(base_fee)
    ELSE IF volatility_score >= 9000 THEN Ok(max_fee)
    ELSE LET normalized_score == saturating_sub(volatility_score, 1000)
             fee_range == saturating_sub(max_fee, base_fee)
             fee_increase == saturating_mul(normalized_score, fee_range) \div 7000
             dynamic_fee == saturating_add(base_fee, fee_increase)
         IN as_u32(dynamic_fee)

get_recommended_fee(volatility_score, base_fee, max_fee) ==
    IF volatility_score <= 1000 THEN Ok(base_fee)
    ELSE IF volatility_score >= 9000 THEN Ok(max_fee)
    ELSE LET normalized_score == saturating_sub(volatility_score, 1000)
             fee_range == saturating_sub(max_fee, base_fee)
             fee_increase == saturating_mul(normalized_score, fee_range) \div 8000
             dynamic_fee == saturating_add(base_fee, fee_increase)
         IN as_u32(dynamic_fee)

\* ---------------------------------------------------- i32 / u32 arithmetic
\* TRUE for a build with overflow checks (arithmetic overflow panics),
\* FALSE for a build without them (arithmetic overflow wraps).
VARIABLE overflow_checks

InI32(x) == x >= I32Min /\ x <= I32Max

\* Two's complement wrap of a mathematical integer into i32.
I32(x) == ((x + 2 * I32Mod - I32Min) % I32Mod) + I32Min

Abs(x) == IF x < 0 THEN -x ELSE x

\* Rust integer division truncates toward zero.
TruncDiv(a, b) ==
    LET q == Abs(a) \div Abs(b)
    IN IF (a < 0) # (b < 0) THEN -q ELSE q

\* i32::abs without overflow checks: the minimum value is returned as is.
i32_abs(x) == IF x = I32Min THEN I32Min ELSE Abs(x)

\* `as u32` of an i32 keeps the bit pattern.
i32_as_u32(x) == IF x >= 0 THEN x ELSE x + I32Mod

\* ---------------------------------------------------- PositionOptimizer
RECURSIVE PositionOptimizer_mean_loop(_, _, _)
PositionOptimizer_mean_loop(prices, i, sum) ==
    IF i > Len(prices) THEN sum
    ELSE PositionOptimizer_mean_loop(prices, i + 1,
                                     saturating_add(sum, prices[i]))

PositionOptimizer_compute_mean(prices) ==
    IF Len(prices) = 0 THEN 0
    ELSE PositionOptimizer_mean_loop(prices, 1, 0) \div Len(prices)

RECURSIVE sqrt_loop(_, _, _)
sqrt_loop(n, x, y) ==
    IF y < x
    THEN \* x = y; y = (x + n / x) / 2, and n / 0 panics
         IF y = 0 THEN Panic
         ELSE sqrt_loop(n, y, wrapping_add(y, n \div y) \div 2)
    ELSE Ok(x)

sqrt(n) ==
    IF n = 0 THEN Ok(0)
    ELSE sqrt_loop(n, n, wrapping_add(n, 1) \div 2)

RECURSIVE std_dev_loop(_, _, _, _)
std_dev_loop(prices, mean, i, sum_squared_diff) ==
    IF i > Len(prices) THEN sum_squared_diff
    ELSE LET price == prices[i]
             diff == IF price >= mean THEN price - mean ELSE mean - price
             squared == saturating_mul(diff, diff)
         IN std_dev_loop(prices, mean, i + 1,
                         saturating_add(sum_squared_diff, squared))

compute_std_dev(prices, mean) ==
    IF Len(prices) <= 1 THEN Ok(0)
    ELSE LET variance == std_dev_loop(prices, mean, 1, 0) \div Len(prices)
         IN sqrt(variance)

\* (ln(p) / ln(1.0001)) as i32, computed in f64, for p = 0 .. U128Max.
\* ln(0) is -inf and the cast saturates to the minimum i32.
TickTable ==
  <<
     I32Min, 0, 6931, 10986, 13863, 16095, 17918, 19460,
     20795, 21973, 23027, 23980, 24850, 25650, 26391, 27081,
     27727, 28333, 28905, 29445, 29958, 30446, 30911, 31356,
     31782, 32190, 32582, 32960, 33323, 33674, 34013, 34341,
     34659, 34966, 35265, 35555, 35836, 36110, 36377, 36637,
     36890, 37137, 37378, 37613, 37843, 38068, 38288, 38503,
     38713, 38920, 39122, 39320, 39514, 39704, 39891, 40075,
     40255, 40432, 40606, 40777, 40945, 41110, 41273, 41433,
     41590, 41745, 41898, 42049, 42197, 42343, 42487, 42628,
     42768, 42906, 43042, 43177, 43309, 43440, 43569, 43696,
     43822, 43946, 44069, 44190, 44310, 44428, 44545, 44661,
     44775, 44888, 45000, 45110, 45220, 45328, 45435, 45541,
     45645, 45749, 45851, 45953, 46054, 46153, 46252, 46349,
     46446, 46541, 46636, 46730, 46823, 46915, 47007, 47097,
     47187, 47276, 47364, 47451, 47538, 47624, 47709, 47793,
     47877, 47960, 48042, 48124, 48205, 48285, 48365, 48444,
     48522, 48600, 48677, 48754, 48830, 48905, 48980, 49055,
     49129, 49202, 49275, 49347, 49418, 49490, 49560, 49630,
     49700, 49769, 49838, 49906, 49974, 50041, 50108, 50175,
     50241, 50306, 50372, 50436, 50501, 50564, 50628, 50691,
     50754, 50816, 50878, 50940, 51001, 51062, 51122, 51182,
     51242, 51301, 51360, 51419, 51477, 51535, 51593, 51650,
     51707, 51764, 51820, 51876, 51932, 51987, 52042, 52097,
     52151, 52206, 52260, 52313, 52367, 52420, 52472, 52525,
     52577, 52629, 52681, 52732, 52783, 52834, 52885, 52935,
     52985, 53035, 53085, 53134, 53183, 53232, 53281, 53329,
     53378, 53426, 53473, 53521, 53568, 53615, 53662, 53709,
     53755, 53801, 53847, 53893, 53938, 53984, 54029, 54074,
     54119, 54163, 54208, 54252, 54296, 54339, 54383, 54426,
     54470, 54513, 54555, 54598, 54641, 54683, 54725, 54767,
     54809, 54850, 54892, 54933, 54974, 55015, 55056, 55096,
     55137, 55177, 55217, 55257, 55297, 55336, 55376, 55415
  >>

\* price.as_u128() fails on a price that does not fit a u128.
price_to_tick(price) ==
    IF price > U128Max THEN Panic ELSE Ok(TickTable[price + 1])

round_to_spacing(tick, spacing) == TruncDiv(tick, spacing) * spacing

calculate_optimal_position_bounds(recent_prices) ==
    IF Len(recent_prices) < 2 THEN Err("InvalidPriceArray")
    ELSE LET mean_price == PositionOptimizer_compute_mean(recent_prices)
             std_dev == compute_std_dev(recent_prices, mean_price)
             mean_tick == price_to_tick(mean_price)
         IN IF std_dev.kind = "Panic" \/ mean_tick.kind = "Panic" THEN Panic
            ELSE LET std_dev_percentage ==
                         IF mean_price > 0
                         THEN wrapping_mul(std_dev.value, 100) \div mean_price
                         ELSE 0
                     tick_spacing == 60
                     volatility_multiplier ==
                         IF std_dev_percentage < 5 THEN 20
                         ELSE IF std_dev_percentage < 10 THEN 30
                         ELSE IF std_dev_percentage < 20 THEN 50
                         ELSE 100
                     tick_range == volatility_multiplier * tick_spacing
                     lower_raw == mean_tick.value - tick_range
                     upper_raw == mean_tick.value + tick_range
                 IN IF overflow_checks /\ ~(InI32(lower_raw) /\ InI32(upper_raw))
                    THEN Panic
                    ELSE Ok(<<round_to_spacing(I32(lower_raw), tick_spacing),
                              round_to_spacing(I32(upper_raw), tick_spacing)>>)

\* Lines 199-218 of should_rebalance, once current_range > 0 is known.
rebalance_decision(optimal_lower, optimal_upper, current_lower_tick, current_upper_tick, current_tick, current_range) ==
    LET dfl_raw == current_tick - current_lower_tick
        dfu_raw == current_upper_tick - current_tick
        dist_from_lower == I32(dfl_raw)
        dist_from_upper == I32(dfu_raw)
        lp_raw == dist_from_lower * 100
        up_raw == dist_from_upper * 100
        lower_pct == TruncDiv(I32(lp_raw), current_range)
        upper_pct == TruncDiv(I32(up_raw), current_range)
        ol_raw == optimal_lower - current_lower_tick
        ou_raw == optimal_upper - current_upper_tick
        edge == \/ current_tick <= current_lower_tick
                \/ current_tick >= current_upper_tick
                \/ lower_pct < 10
                \/ upper_pct < 10
        lower_moved == i32_abs(I32(ol_raw)) > TruncDiv(current_range, 4)
        upper_moved == i32_abs(I32(ou_raw)) > TruncDiv(current_range, 4)
        overflowed ==
            \/ ~InI32(dfl_raw) \/ ~InI32(dfu_raw)
            \/ ~InI32(lp_raw) \/ ~InI32(up_raw)
            \/ ~edge /\ (~InI32(ol_raw) \/ I32(ol_raw) = I32Min)
            \/ ~edge /\ ~lower_moved /\ (~InI32(ou_raw) \/ I32(ou_raw) = I32Min)
    IN IF overflow_checks /\ overflowed THEN Panic
       ELSE Ok(<<edge \/ lower_moved \/ upper_moved, optimal_lower, optimal_upper>>)

should_rebalance(current_lower_tick, current_upper_tick, recent_prices) ==
    LET optimal == calculate_optimal_position_bounds(recent_prices)
    IN IF optimal.kind # "Ok" THEN optimal
       ELSE LET current_price == recent_prices[Len(recent_prices)]
                current_tick == price_to_tick(current_price)
                range_raw == current_upper_tick - current_lower_tick
                current_range == I32(range_raw)
            IN IF current_tick.kind = "Panic" THEN Panic
               ELSE IF overflow_checks /\ ~InI32(range_raw) THEN Panic
               ELSE IF current_range <= 0 THEN Err("InvalidTickSpacing")
               ELSE rebalance_decision(optimal.value[1], optimal.value[2],
                                       current_lower_tick, current_upper_tick,
                                       current_tick.value, current_range)

calculate_position_efficiency(current_lower_tick, current_upper_tick, current_tick) ==
    IF current_upper_tick <= current_lower_tick THEN Err("InvalidTickSpacing")
    ELSE IF current_tick < current_lower_tick \/ current_tick > current_upper_tick
    THEN Ok(0)
    ELSE LET rs_raw == current_upper_tick - current_lower_tick
             range_size == I32(rs_raw)
             s1_raw == current_tick - current_lower_tick
             s2_raw == I32(s1_raw) - TruncDiv(range_size, 2)
             distance_from_middle == i32_abs(I32(s2_raw))
             max_distance == TruncDiv(range_size, 2)
             m_raw == distance_from_middle * 100
             overflowed == \/ ~InI32(rs_raw) \/ ~InI32(s1_raw)
                           \/ ~InI32(s2_raw) \/ I32(s2_raw) = I32Min
         IN IF overflow_checks /\ overflowed THEN Panic
            ELSE IF max_distance = 0 THEN Ok(100)
            ELSE IF overflow_checks /\ ~InI32(m_raw) THEN Panic
            \* i32::MIN / -1 panics in every build
            ELSE IF I32(m_raw) = I32Min /\ max_distance = -1 THEN Panic
            ELSE LET lost == i32_as_u32(TruncDiv(I32(m_raw), max_distance))
                 IN IF lost > 100
                    THEN IF overflow_checks THEN Panic
                         ELSE Ok(100 - lost + U32Max + 1)
                    ELSE Ok(100 - lost)

\* ------------------------------------------------------------ the state
\* scaling_factor: the storage field of both contracts.
\* op, args, result: the call being served ("idle" between calls), its
\* arguments and what it returns to the caller.
VARIABLES scaling_factor, op, args, result

vars == <<overflow_checks, scaling_factor, op, args, result>>

NoArgs ==
    [recent_prices |-> <<>>, time_window |-> 0, volatility_score |-> 0,
     base_fee |-> 0, max_fee |-> 0, current_lower_tick |-> 0,
     current_upper_tick |-> 0, current_tick |-> 0, n |-> 0]

\* ---------------------------------------------------------- input sets
PriceSet == {0, 1, 100, 110, 130, 200, U128Max, U256Max}
SeriesSet == UNION {[1..k -> PriceSet] : k \in 0..MaxLen}
WindowSet == {0, 1, 3600}
ScoreSet == {0, 1, 500, 999, 1000, 1001, 1002, 1999, 2000, 2001, 4999, 5000,
             5001, 8998, 8999, 9000, 9001, 9999, 10000, 10001, U256Max}
FeeSet == {0, 1, 10, 100, 3000, 10000, FeeMax - 1, FeeMax}
RebalanceTickSet == {I32Min, -1200, 0, 1200, 44820, 47220, I32Max}
EfficiencyTickSet == {I32Min, -1, 0, 1, 2, 3, 50, 100, I32Max}
SqrtSet == (0..MaxSmallN) \cup {32767 * 32767 - 1, 32767 * 32767,
                                32767 * 32767 + 1, U256Max \div 2,
                                U256Max - 1, U256Max}

\* ------------------------------------------------------------- actions
\* constructor()
Init ==
    /\ overflow_checks \in BOOLEAN
    /\ scaling_factor = 10000
    /\ op = "idle"
    /\ args = NoArgs
    /\ result = Ok(0)

Call(name, a, r) ==
    /\ op' = name
    /\ args' = a
    /\ result' = r
    /\ UNCHANGED <<overflow_checks, scaling_factor>>

CalculateVolatilityScore ==
    /\ op = "idle"
    /\ \E p \in SeriesSet, w \in WindowSet :
        Call("calculate_volatility_score",
             [NoArgs EXCEPT !.recent_prices = p, !.time_window = w],
             calculate_volatility_score(p, w))

GetRecommendedFee ==
    /\ op = "idle"
    /\ \E s \in ScoreSet, b \in FeeSet, m \in FeeSet :
        Call("get_recommended_fee",
             [NoArgs EXCEPT !.volatility_score = s, !.base_fee = b,
                            !.max_fee = m],
             get_recommended_fee(s, b, m))

CalculateOptimalPositionBounds ==
    /\ op = "idle"
    /\ \E p \in SeriesSet :
        Call("calculate_optimal_position_bounds",
             [NoArgs EXCEPT !.recent_prices = p],
             calculate_optimal_position_bounds(p))

ShouldRebalance ==
    /\ op = "idle"
    /\ \E lo \in RebalanceTickSet, up \in RebalanceTickSet, p \in SeriesSet :
        Call("should_rebalance",
             [NoArgs EXCEPT !.current_lower_tick = lo,
                            !.current_upper_tick = up, !.recent_prices = p],
             should_rebalance(lo, up, p))

CalculatePositionEfficiency ==
    /\ op = "idle"
    /\ \E lo \in EfficiencyTickSet, up \in EfficiencyTickSet,
       t \in EfficiencyTickSet :
        Call("calculate_position_efficiency",
             [NoArgs EXCEPT !.current_lower_tick = lo,
                            !.current_upper_tick = up, !.current_tick = t],
             calculate_position_efficiency(lo, up, t))

\* The helpers applied on their own.
Sqrt ==
    /\ op = "idle"
    /\ \E k \in SqrtSet :
        Call("sqrt", [NoArgs EXCEPT !.n = k], sqrt(k))

ComputeMean ==
    /\ op = "idle"
    /\ \E p \in SeriesSet :
        Call("compute_mean", [NoArgs EXCEPT !.recent_prices = p],
             Ok(compute_mean(p)))

PositionOptimizerComputeMean ==
    /\ op = "idle"
    /\ \E p \in SeriesSet :
        Call("PositionOptimizer_compute_mean",
             [NoArgs EXCEPT !.recent_prices = p],
             Ok(PositionOptimizer_compute_mean(p)))

\* The caller takes the returned value; the contract keeps nothing of it.
Return ==
    /\ op # "idle"
    /\ op' = "idle"
    /\ args' = NoArgs
    /\ result' = Ok(0)
    /\ UNCHANGED <<overflow_checks, scaling_factor>>

Next ==
    \/ CalculateVolatilityScore
    \/ GetRecommendedFee
    \/ CalculateOptimalPositionBounds
    \/ ShouldRebalance
    \/ CalculatePositionEfficiency
    \/ Sqrt
    \/ ComputeMean
    \/ PositionOptimizerComputeMean
    \/ Return

Spec == Init /\ [][Next]_vars

TypeOK ==
    /\ result.kind \in {"Ok", "Err", "Panic"}
    /\ scaling_factor = 10000

\* ------------------------------------------------------------ properties
Min(a, b) == IF a <= b THEN a ELSE b
Max(a, b) == IF a >= b THEN a ELSE b

RECURSIVE SeqMin(_)
SeqMin(s) == IF Len(s) = 1 THEN s[1] ELSE Min(s[1], SeqMin(Tail(s)))

RECURSIVE SeqMax(_)
SeqMax(s) == IF Len(s) = 1 THEN s[1] ELSE Max(s[1], SeqMax(Tail(s)))

AllEqual(s) == \A i \in 1..Len(s) : s[i] = s[1]

\* C1: for lower < upper and any current tick, calculate_position_efficiency
\* succeeds and returns a value between 0 and 100.
C1_EfficiencyWithin0To100 ==
    (op = "calculate_position_efficiency"
        /\ args.current_lower_tick < args.current_upper_tick)
    => (result.kind = "Ok" /\ result.value >= 0 /\ result.value <= 100)

\* C2: for baseFee <= maxFee the recommended fee lies in [baseFee, maxFee],
\* is baseFee up to score 1000, maxFee from score 9000, and no higher score
\* gets a lower fee.
C2_FeeMonotonicAndBounded ==
    (op = "get_recommended_fee" /\ args.base_fee <= args.max_fee)
    => /\ result.kind = "Ok"
       /\ result.value >= args.base_fee
       /\ result.value <= args.max_fee
       /\ (args.volatility_score <= 1000 => result.value = args.base_fee)
       /\ (args.volatility_score >= 9000 => result.value = args.max_fee)
       /\ \A s2 \in ScoreSet :
              s2 >= args.volatility_score
              => LET r2 == get_recommended_fee(s2, args.base_fee, args.max_fee)
                 IN r2.kind = "Ok" /\ r2.value >= result.value

\* C2 witness: a score strictly inside the interpolated part with a fee
\* strictly between the two bounds.
C2_Witness ==
    /\ op = "get_recommended_fee"
    /\ args.volatility_score > 1000 /\ args.volatility_score < 9000
    /\ result.kind = "Ok"
    /\ result.value > args.base_fee /\ result.value < args.max_fee

\* C3: for every series of length >= 2 calculate_optimal_position_bounds
\* returns lower < upper, both multiples of 60.
C3_BoundsOrderedAndSpaced ==
    (op = "calculate_optimal_position_bounds" /\ Len(args.recent_prices) >= 2)
    => /\ result.kind = "Ok"
       /\ result.value[1] < result.value[2]
       /\ result.value[1] % 60 = 0
       /\ result.value[2] % 60 = 0

\* C4: for a non-empty series and a non-zero window calculate_volatility_score
\* succeeds with a score between 0 and 10000.
C4_ScoreWithin0To10000 ==
    (op = "calculate_volatility_score" /\ Len(args.recent_prices) > 0
        /\ args.time_window # 0)
    => (result.kind = "Ok" /\ result.value >= 0 /\ result.value <= 10000)

\* C4 witness: a call whose weighted sum is above 10000 and was capped.
C4_Witness ==
    /\ op = "calculate_volatility_score"
    /\ Len(args.recent_prices) > 0 /\ args.time_window # 0
    /\ volatility_sum(args.recent_prices, compute_mean(args.recent_prices)) > 10000
    /\ result = Ok(10000)

\* C5: for a series of length >= 2 and currentUpper > currentLower,
\* should_rebalance returns the optimal bounds of the same series, and the
\* flag is true exactly when the last price's tick is at or outside a bound,
\* within 10% of a bound, or an optimal bound is further than a quarter of
\* the current range from the current one.
C5_RebalanceRule ==
    (op = "should_rebalance" /\ Len(args.recent_prices) >= 2
        /\ args.current_upper_tick > args.current_lower_tick)
    => /\ result.kind = "Ok"
       /\ LET optimal == calculate_optimal_position_bounds(args.recent_prices)
              lastTick == price_to_tick(args.recent_prices[Len(args.recent_prices)])
              lo == args.current_lower_tick
              up == args.current_upper_tick
              currentRange == up - lo
          IN /\ optimal.kind = "Ok"
             /\ lastTick.kind = "Ok"
             /\ <<result.value[2], result.value[3]>> = optimal.value
             /\ result.value[1] <=>
                   \/ lastTick.value <= lo
                   \/ lastTick.value >= up
                   \/ TruncDiv((lastTick.value - lo) * 100, currentRange) < 10
                   \/ TruncDiv((up - lastTick.value) * 100, currentRange) < 10
                   \/ Abs(optimal.value[1] - lo) > TruncDiv(currentRange, 4)
                   \/ Abs(optimal.value[2] - up) > TruncDiv(currentRange, 4)

\* C6: calculate_volatility_score fails with InvalidPriceArray exactly on an
\* empty series, with InvalidTimeWindow exactly on a non-empty series and a
\* zero window, and succeeds otherwise; get_recommended_fee never fails.
C6_VolatilityErrors ==
    /\ op = "calculate_volatility_score"
       => /\ (result = Err("InvalidPriceArray")) <=> (Len(args.recent_prices) = 0)
          /\ (result = Err("InvalidTimeWindow"))
                <=> (Len(args.recent_prices) > 0 /\ args.time_window = 0)
          /\ (Len(args.recent_prices) > 0 /\ args.time_window # 0)
                => result.kind = "Ok"
    /\ op = "get_recommended_fee" => result.kind = "Ok"

\* C6 witness: an empty series together with a zero window is reported as
\* InvalidPriceArray.
C6_Witness ==
    /\ op = "calculate_volatility_score"
    /\ Len(args.recent_prices) = 0 /\ args.time_window = 0
    /\ result = Err("InvalidPriceArray")

\* C7: calculate_optimal_position_bounds fails with InvalidPriceArray exactly
\* on a series shorter than 2; should_rebalance passes that failure on
\* whatever the tick bounds, fails with InvalidTickSpacing exactly on a series
\* of length >= 2 with currentUpper <= currentLower, and succeeds otherwise.
C7_PositionErrors ==
    /\ op = "calculate_optimal_position_bounds"
       => ((result = Err("InvalidPriceArray")) <=> (Len(args.recent_prices) < 2))
    /\ op = "should_rebalance"
       => /\ (result = Err("InvalidPriceArray")) <=> (Len(args.recent_prices) < 2)
          /\ (result = Err("InvalidTickSpacing"))
                <=> (Len(args.recent_prices) >= 2
                     /\ args.current_upper_tick - args.current_lower_tick <= 0)
          /\ (Len(args.recent_prices) >= 2
                /\ args.current_upper_tick - args.current_lower_tick > 0)
                => result.kind = "Ok"

\* C8: for a non-empty series of equal prices and a non-zero window the
\* variance, the movement intensity and the price range are 0, the score is
\* 0, and the recommended fee for that score is baseFee.
C8_FlatSeriesScoresZero ==
    (op = "calculate_volatility_score" /\ Len(args.recent_prices) >= 1
        /\ AllEqual(args.recent_prices) /\ args.time_window # 0)
    => /\ compute_variance(args.recent_prices, compute_mean(args.recent_prices)) = 0
       /\ calculate_price_movement_intensity(args.recent_prices) = 0
       /\ price_range_of(args.recent_prices) = 0
       /\ result = Ok(0)
       /\ \A b \in FeeSet, m \in FeeSet :
              get_recommended_fee(result.value, b, m) = Ok(b)

\* C9: for every n, sqrt terminates with the floor square root r of n:
\* r*r <= n < (r+1)*(r+1).
C9_SqrtIsFloorRoot ==
    op = "sqrt"
    => /\ result.kind = "Ok"
       /\ result.value * result.value <= args.n
       /\ args.n < (result.value + 1) * (result.value + 1)

\* C10: for every non-empty series compute_mean (of either contract) returns
\* a value between the smallest and the largest price of the series.
C10_MeanBetweenMinAndMax ==
    (op \in {"compute_mean", "PositionOptimizer_compute_mean"}
        /\ Len(args.recent_prices) >= 1)
    => /\ result.value >= SeqMin(args.recent_prices)
       /\ result.value <= SeqMax(args.recent_prices)
====
